---- MODULE Spec2Model ----
(***************************************************************************)
(* State machine of the useMirovaSession hook (src/hooks/useMirovaSession.ts):*)
(* the React state (status, isAiSpeaking, error), the refs holding the      *)
(* resource handles, the platform objects behind those handles, the async   *)
(* continuations of connect(), of the transport callbacks and of the        *)
(* fragment handler, and the output clock.  One action is one event-loop    *)
(* task: a handler from its start to its next real suspension point.        *)
(***************************************************************************)
EXTENDS Integers, Sequences, FiniteSets, TLC

\* ---------------------------------------------------------------- bounds
\* The playback specification (SpecPlay): fragments received, longest buffer,
\* last clock value.
MaxFrags == 2
MaxDur == 2
MaxClock == 2
\* The session specification (Spec): connect() invocations, and the fragments
\* it adds to them.
SessionConnects == 1
SessionFrags == 1
\* The connect() invocations the model has room for.
MaxConnects == 2
\* The capture specifications: capture windows that reach a session promise.
MaxFrames == 2
\* Samples are multiples of 1/Resolution; the sample 1.0 is Resolution.
Resolution == 16
\* The visibility specification: wake-lock requests of the visibility handler.
MaxRequests == 2
\* The text-chat specification: playBotAudio() invocations, and the messages
\* they are for.
MaxChat == 2

\* ------------------------------------------------------------- constants
DISCONNECTED == "disconnected"
CONNECTING == "connecting"
CONNECTED == "connected"
ERROR == "error"
ConnectionStatus == {DISCONNECTED, CONNECTING, CONNECTED, ERROR}

\* The null of a ref, and the null of the error string.
Null == 0
NoError == "null"
ErrMissingKey == "API Key is missing."
ErrConnect == "Failed to connect"

ConnIds == 1..MaxConnects
FragIds == 1..MaxFrags
ChatIds == 1..MaxChat
Durations == 1..MaxDur

VARIABLES
    apiKey,             \* the hook's argument: TRUE when a credential is given
    mounted,            \* the component using the hook is mounted
    status, isAiSpeaking, error,
    inputContextRef, outputContextRef, outputNodeRef, keepAliveOscRef,
    sessionPromiseRef, streamRef, processorRef, sourceRef, wakeLockRef,
    sourcesRef, nextStartTimeRef,
    conn,               \* connect() invocations: their position and closure
    transport,          \* the transports opened by ai.live.connect
    mic,                \* getUserMedia requests of the onopen callbacks
    inOpen, outOpen,    \* input / output AudioContexts not closed
    born,               \* clock value at which each output context was created
    oscOn,              \* keep-alive oscillators started and not stopped
    micLive,            \* microphone streams whose tracks are not stopped
    graphOn,            \* capture graphs (source -> processor) still connected
    locksHeld,          \* wake-lock sentinels not released
    frag,               \* inbound fragments: decode position and playback unit
    last,               \* history: the arrival and the start of the unit just
                        \* scheduled, kept until the next playback event
    run,                \* history: <<start, duration>> of the units scheduled
                        \* since the cursor last jumped or fell behind the clock
    calls,              \* history: disconnect() calls in a row, up to two
    fresh,              \* history: an interruption found no decode pending and
                        \* no fragment has arrived since
    visible,            \* document.visibilityState is 'visible'
    wakeReq,            \* wake-lock requests of the visibility handler
    queued,             \* capture frames waiting on each pending session promise
    sent,               \* capture frames handed to each session
    frame,              \* the capture window converted last, and its result
    graphCtx,           \* the input context each capture graph was built on
    chat,               \* text-chat playback of the App component
    clock               \* time of the output device

playVars == <<sourcesRef, nextStartTimeRef, frag, last, run>>
pageVars == <<visible, wakeReq>>
capVars == <<queued, sent, frame, graphCtx>>
stateVars == <<status, isAiSpeaking, error>>
refVars == <<inputContextRef, outputContextRef, outputNodeRef, keepAliveOscRef,
             sessionPromiseRef, streamRef, processorRef, sourceRef, wakeLockRef>>
platVars == <<inOpen, outOpen, born, oscOn, micLive, graphOn, locksHeld>>
asyncVars == <<conn, transport, mic>>
hookVars == <<apiKey, mounted, stateVars, refVars, platVars, asyncVars, playVars, pageVars,
             capVars, calls, fresh, clock>>
vars == <<hookVars, chat>>

Max(a, b) == IF a >= b THEN a ELSE b

\* ctx.currentTime of output context c.
currentTime(c) == clock - born[c]

NoConn == [pc |-> "idle", closureStatus |-> DISCONNECTED]
NoTransport == [st |-> "none", promise |-> "none", closeOnResolve |-> FALSE]
\* A fragment: none (not received), decoding, live (a source started on an open
\* context), mute (a source started on a closed context), stopped (force-stopped,
\* its ended event not delivered yet), cut (force-stopped, ended event
\* delivered), gone (dropped, or played to its end and ended event delivered). start is the value given to
\* source.start(), began the clock value at which the source begins to sound.
\* arrClock, snapped, moved and reset are history of a pending decode: the clock
\* at arrival, that the arrival raised the cursor to the clock, that the cursor
\* was written and that playback was reset since the arrival; first, that the
\* fragment was the first to arrive after an interruption with no decode pending.
NoFrag == [st |-> "none", ctx |-> Null, dur |-> 0, start |-> 0, began |-> 0,
           arrClock |-> 0, snapped |-> FALSE, moved |-> FALSE, reset |-> FALSE,
           first |-> FALSE]
Gone == [NoFrag EXCEPT !.st = "gone"]
\* A unit that was force-stopped and whose ended event has been delivered.
Cut == [NoFrag EXCEPT !.st = "cut"]
\* The visibility handler's requests: those awaiting the platform, and all
\* those made so far.
NoWakeReq == [pending |-> 0, made |-> 0]
\* No capture window converted yet.
NoFrame == [in |-> 0, out |-> 0]
\* Text-chat playback before any playBotAudio(): ctx, chatAudioContextRef is
\* set; current, the source currentChatSourceRef names; playing,
\* playingMsgIndex; call, the playBotAudio() invocations, each with its position
\* and its message index; src, the source each invocation created: none,
\* playing, stopped (stop() called, ended event not delivered yet) or ended.
NoChat == [ctx |-> FALSE, current |-> Null, playing |-> Null,
           call |-> [k \in ChatIds |-> [pc |-> "idle", index |-> Null]],
           src |-> [k \in ChatIds |-> "none"]]
NoLast == [arrClock |-> 0, snapped |-> FALSE, moved |-> FALSE,
           reset |-> FALSE, start |-> 0, dur |-> 0, at |-> 0, flag |-> FALSE,
           first |-> FALSE]

Init ==
    /\ apiKey \in BOOLEAN
    /\ mounted = TRUE
    /\ status = DISCONNECTED
    /\ isAiSpeaking = FALSE
    /\ error = NoError
    /\ inputContextRef = Null /\ outputContextRef = Null
    /\ outputNodeRef = Null /\ keepAliveOscRef = Null
    /\ sessionPromiseRef = Null /\ streamRef = Null
    /\ processorRef = Null /\ sourceRef = Null /\ wakeLockRef = Null
    /\ sourcesRef = {}
    /\ nextStartTimeRef = 0
    /\ conn = [c \in ConnIds |-> NoConn]
    /\ transport = [c \in ConnIds |-> NoTransport]
    /\ mic = [c \in ConnIds |-> "none"]
    /\ inOpen = {} /\ outOpen = {}
    /\ born = [c \in ConnIds |-> 0]
    /\ oscOn = {} /\ micLive = {} /\ graphOn = {} /\ locksHeld = {}
    /\ frag = [f \in FragIds |-> NoFrag]
    /\ last = NoLast
    /\ run = <<>>
    /\ calls = 0
    /\ fresh = FALSE
    /\ visible = TRUE
    /\ wakeReq = NoWakeReq
    /\ queued = [c \in ConnIds |-> 0]
    /\ sent = [c \in ConnIds |-> 0]
    /\ frame = NoFrame
    /\ graphCtx = [c \in ConnIds |-> Null]
    /\ chat = NoChat
    /\ clock = 0

\* ------------------------------------------------------- playback units
\* A unit has finished by itself: the output clock reached the end of its buffer.
Finished(f) ==
    /\ frag[f].st = "live"
    /\ currentTime(frag[f].ctx) >= frag[f].began + frag[f].dur

\* src.stop() on one unit: a unit still sounding is cut at the present clock;
\* a unit that already finished is left as it is (its ended event is still to
\* come), a unit that never sounded is forgotten.
Stopped(f) ==
    IF frag[f].st = "live" /\ ~Finished(f)
    THEN [NoFrag EXCEPT !.st = "stopped"]
    ELSE IF frag[f].st = "mute" THEN Gone ELSE frag[f]

\* History kept on the fragments still being decoded: the cursor was written
\* (moved) and the playback was reset (reset) while their decode was pending.
Noted(r, cursorMoved, wasReset) ==
    IF r.st = "decoding"
    THEN [r EXCEPT !.moved = r.moved \/ cursorMoved, !.reset = r.reset \/ wasReset]
    ELSE r

\* Variant: the set is cleared without stopping the sources.
StopAllForgets ==
    [f \in FragIds |->
        IF f \in sourcesRef THEN frag[f]
        ELSE Noted(frag[f], nextStartTimeRef # 0, TRUE)]

\* sourcesRef.current.forEach(src => { try { src.stop(); } catch(e) {} })
StopAll ==
    [f \in FragIds |->
        IF f \in sourcesRef THEN Stopped(f)
        ELSE Noted(frag[f], nextStartTimeRef # 0, TRUE)]

\* Variant: the first stop() that throws ends the loop.
StopAllAborts(thrown) ==
    [f \in FragIds |->
        IF f \in sourcesRef
        THEN IF \A b \in thrown : f < b THEN Stopped(f) ELSE frag[f]
        ELSE Noted(frag[f], nextStartTimeRef # 0, TRUE)]

\* The same loop when src.stop() throws for the units in thrown: the catch
\* swallows the exception, that unit is left as it was, the loop goes on.
StopAllCatching(thrown) ==
    [f \in FragIds |->
        IF f \in sourcesRef
        THEN IF f \in thrown THEN frag[f] ELSE Stopped(f)
        ELSE Noted(frag[f], nextStartTimeRef # 0, TRUE)]

\* The value stopSpeaking, the interruption and disconnect give the cursor.
CursorAfterReset == 0

\* stopSpeaking(): the manual stop.
StopSpeaking ==
    /\ frag' = StopAll
    /\ sourcesRef' = {}
    /\ nextStartTimeRef' = CursorAfterReset
    /\ isAiSpeaking' = FALSE
    /\ run' = <<>>
    /\ last' = NoLast
    /\ calls' = 0
    /\ UNCHANGED <<chat, apiKey, mounted, pageVars, capVars, fresh, status, error, refVars, platVars, asyncVars, clock>>

\* stopSpeaking() with stop() throwing for the units in thrown.
StopSpeakingThrown(thrown) ==
    /\ thrown # {} /\ thrown \subseteq sourcesRef
    /\ frag' = StopAllCatching(thrown)
    /\ sourcesRef' = {}
    /\ nextStartTimeRef' = CursorAfterReset
    /\ isAiSpeaking' = FALSE
    /\ run' = <<>>
    /\ last' = NoLast
    /\ calls' = 0
    /\ UNCHANGED <<chat, apiKey, mounted, pageVars, capVars, fresh, status, error, refVars, platVars, asyncVars, clock>>

\* ------------------------------------------------------------ release
\* releaseWakeLock(): release() frees the sentinel at once and its promise,
\* already resolved, clears the ref before any other task runs.
LocksAfterRelease(held, ref) == IF ref # Null THEN held \ {ref} ELSE held
\* Variant: the ref still names the released sentinel.
RefKept(ref) == ref
RefAfterRelease(ref) == Null

\* sessionPromiseRef.current?.then(session => session.close()): a session
\* already delivered is closed now, a pending one when its promise resolves.
CloseSession(tr, t) ==
    IF t = Null THEN tr
    ELSE IF tr[t].promise = "resolved"
         THEN [tr EXCEPT ![t].st = IF @ = "open" THEN "closing" ELSE @]
         ELSE [tr EXCEPT ![t].closeOnResolve = TRUE]

\* setError(null), the last statement of disconnect().
ErrorAfterDisconnect == NoError

\* The body of disconnect(), on a transport table tr that the calling callback
\* may have updated already, with units what the loop of stop() calls leaves.
release(tr, units) ==
    /\ locksHeld' = LocksAfterRelease(locksHeld, wakeLockRef)
    /\ wakeLockRef' = RefAfterRelease(wakeLockRef)
    /\ inOpen' = inOpen \ {inputContextRef}
    /\ outOpen' = outOpen \ {outputContextRef}
    /\ inputContextRef' = Null
    /\ outputContextRef' = Null
    /\ oscOn' = oscOn \ {keepAliveOscRef}
    /\ keepAliveOscRef' = Null
    /\ micLive' = micLive \ {streamRef}
    /\ streamRef' = Null
    /\ graphOn' = graphOn \ {processorRef}
    /\ processorRef' = Null
    /\ sourceRef' = Null
    /\ frag' = units
    /\ sourcesRef' = {}
    /\ nextStartTimeRef' = CursorAfterReset
    /\ run' = <<>>
    /\ transport' = CloseSession(tr, sessionPromiseRef)
    /\ sessionPromiseRef' = Null
    /\ status' = DISCONNECTED
    /\ isAiSpeaking' = FALSE
    /\ error' = ErrorAfterDisconnect
    /\ last' = NoLast
    /\ calls' = IF calls < 2 THEN calls + 1 ELSE calls
    /\ fresh' = FALSE
    /\ UNCHANGED <<chat, apiKey, pageVars, capVars, outputNodeRef, born, clock>>

\* disconnect(), every stop() returning.
disconnect(tr) == release(tr, StopAll)

\* The user (or the component's owner) calls disconnect().
Disconnect ==
    /\ disconnect(transport)
    /\ UNCHANGED <<mounted, conn, mic>>

\* disconnect() called with stop() throwing for the units in thrown.
DisconnectThrown(thrown) ==
    /\ thrown # {} /\ thrown \subseteq sourcesRef
    /\ release(transport, StopAllCatching(thrown))
    /\ UNCHANGED <<mounted, conn, mic>>

\* The steps of disconnect() that act on a resource.
ReleaseSteps == {"lock", "inClose", "outClose", "osc", "tracks", "graph", "transport"}

\* disconnect() when the operation of one step fails on a resource that is
\* there. A rejected release() is caught and leaves wakeLockRef set; a rejected
\* close() of a context or of the session goes unhandled; a throw inside the
\* try of the oscillator skips the rest of that block; a throw of a track's
\* stop() or of the processor's disconnect() is not caught and ends
\* disconnect() at that statement.
DisconnectFailing(step) ==
    LET aborted == step \in {"tracks", "graph"}
    IN  /\ CASE step = "lock" -> wakeLockRef # Null
              [] step = "inClose" -> inputContextRef # Null
              [] step = "outClose" -> outputContextRef # Null
              [] step = "osc" -> keepAliveOscRef # Null
              [] step = "tracks" -> streamRef # Null
              [] step = "graph" -> processorRef # Null
              [] step = "transport" ->
                    /\ sessionPromiseRef # Null
                    /\ transport[sessionPromiseRef].promise = "resolved"
                    /\ transport[sessionPromiseRef].st = "open"
        /\ locksHeld' = IF step = "lock" THEN locksHeld
                         ELSE LocksAfterRelease(locksHeld, wakeLockRef)
        /\ wakeLockRef' = IF step = "lock" THEN wakeLockRef
                          ELSE RefAfterRelease(wakeLockRef)
        /\ inOpen' = IF step = "inClose" THEN inOpen ELSE inOpen \ {inputContextRef}
        /\ outOpen' = IF step = "outClose" THEN outOpen ELSE outOpen \ {outputContextRef}
        /\ inputContextRef' = Null
        /\ outputContextRef' = Null
        /\ oscOn' = IF step = "osc" THEN oscOn ELSE oscOn \ {keepAliveOscRef}
        /\ keepAliveOscRef' = IF step = "osc" THEN keepAliveOscRef ELSE Null
        /\ micLive' = IF step = "tracks" THEN micLive ELSE micLive \ {streamRef}
        /\ streamRef' = IF step = "tracks" THEN streamRef ELSE Null
        /\ graphOn' = IF aborted THEN graphOn ELSE graphOn \ {processorRef}
        /\ processorRef' = IF aborted THEN processorRef ELSE Null
        /\ sourceRef' = IF aborted THEN sourceRef ELSE Null
        /\ IF aborted
           THEN UNCHANGED <<playVars, transport, sessionPromiseRef, stateVars, fresh>>
           ELSE /\ frag' = StopAll
                /\ sourcesRef' = {}
                /\ nextStartTimeRef' = CursorAfterReset
                /\ run' = <<>>
                /\ last' = NoLast
                /\ transport' = IF step = "transport" THEN transport
                                 ELSE CloseSession(transport, sessionPromiseRef)
                /\ sessionPromiseRef' = Null
                /\ status' = DISCONNECTED
                /\ isAiSpeaking' = FALSE
                /\ error' = ErrorAfterDisconnect
                /\ fresh' = FALSE
        /\ calls' = IF calls < 2 THEN calls + 1 ELSE calls
        /\ UNCHANGED <<chat, apiKey, mounted, pageVars, capVars, outputNodeRef, born, clock, conn, mic>>

\* The component unmounts: the cleanup of the last effect calls disconnect().
Teardown ==
    /\ mounted
    /\ mounted' = FALSE
    /\ disconnect(transport)
    /\ UNCHANGED <<conn, mic>>

\* ------------------------------------------------------------ connect()
\* Invocations are numbered in call order.
NextConn == CHOOSE c \in ConnIds : conn[c].pc = "idle" /\ \A b \in 1..(c - 1) : conn[b].pc # "idle"
CanConnect == \E c \in ConnIds : conn[c].pc = "idle"

\* setError / setStatus of the catch block of connect().
ErrorAfterCatch == ErrConnect
StatusAfterCatch == ERROR

\* Variant: the credential is not looked at.
CredentialUnchecked(key) == TRUE
\* if (!apiKey): the test connect() starts with.
HasCredential(key) == key

\* connect() up to its first suspension, await requestWakeLock(). The closure
\* of this invocation holds the status of the render that created it.
Connect ==
    /\ IF ~HasCredential(apiKey)
       THEN /\ error' = ErrMissingKey
            /\ UNCHANGED <<status, conn>>
       ELSE /\ CanConnect
            /\ status' = CONNECTING
            /\ error' = NoError
            /\ conn' = [conn EXCEPT ![NextConn] = [pc |-> "wake", closureStatus |-> status]]
    /\ calls' = 0
    /\ UNCHANGED <<chat, apiKey, mounted, pageVars, capVars, fresh, isAiSpeaking, refVars, platVars, transport, mic, playVars, clock>>

\* The catch block of connect(), entered by invocation c with wake-lock state
\* (held, ref) as the try block left it.
Catch(c, held, ref) ==
    /\ error' = ErrorAfterCatch
    /\ status' = StatusAfterCatch
    /\ locksHeld' = LocksAfterRelease(held, ref)
    /\ wakeLockRef' = RefAfterRelease(ref)
    /\ conn' = [conn EXCEPT ![c].pc = "failed"]

\* Variant: a refused request rejects into connect().
WakeFailureFatal(granted) == ~granted
\* requestWakeLock() catches the rejection of its request: nothing is thrown
\* into connect(), granted or not.
WakeFailureThrows(granted) == FALSE

\* requestWakeLock() settles (granted, or refused / unsupported), then both
\* AudioContexts are constructed; either constructor may throw. connect()
\* suspends again at await inputContextRef.current.resume().
WakeDone(c, granted, ctxs) ==
    /\ conn[c].pc = "wake"
    /\ LET held == IF granted THEN locksHeld \cup {c} ELSE locksHeld
           ref == IF granted THEN c ELSE wakeLockRef
       IN  CASE WakeFailureThrows(granted) ->
                  /\ Catch(c, held, ref)
                  /\ UNCHANGED <<inputContextRef, outputContextRef, inOpen, outOpen, born>>
             [] ctxs = "inThrows" ->
                  /\ Catch(c, held, ref)
                  /\ UNCHANGED <<inputContextRef, outputContextRef, inOpen, outOpen, born>>
             [] ctxs = "outThrows" ->
                  /\ Catch(c, held, ref)
                  /\ inputContextRef' = c
                  /\ inOpen' = inOpen \cup {c}
                  /\ UNCHANGED <<outputContextRef, outOpen, born>>
             [] OTHER ->
                  /\ locksHeld' = held
                  /\ wakeLockRef' = ref
                  /\ inputContextRef' = c
                  /\ outputContextRef' = c
                  /\ inOpen' = inOpen \cup {c}
                  /\ outOpen' = outOpen \cup {c}
                  /\ born' = [born EXCEPT ![c] = clock]
                  /\ conn' = [conn EXCEPT ![c].pc = "resumeIn"]
                  /\ UNCHANGED <<status, error>>
    /\ calls' = 0
    /\ UNCHANGED <<chat, apiKey, mounted, pageVars, capVars, fresh, isAiSpeaking, outputNodeRef, keepAliveOscRef, sessionPromiseRef,
                   streamRef, processorRef, sourceRef, oscOn, micLive, graphOn,
                   transport, mic, playVars, clock>>

\* The input context's resume() settles; connect() goes on to
\* outputContextRef.current.resume(), which throws on a ref that disconnect()
\* has cleared meanwhile.
ResumeInDone(c, ok) ==
    /\ conn[c].pc = "resumeIn"
    /\ IF ok /\ outputContextRef # Null
       THEN /\ conn' = [conn EXCEPT ![c].pc = "resumeOut"]
            /\ UNCHANGED <<status, error, locksHeld, wakeLockRef>>
       ELSE Catch(c, locksHeld, wakeLockRef)
    /\ calls' = 0
    /\ UNCHANGED <<chat, apiKey, mounted, pageVars, capVars, fresh, isAiSpeaking, inputContextRef, outputContextRef, outputNodeRef,
                   keepAliveOscRef, sessionPromiseRef, streamRef, processorRef, sourceRef,
                   inOpen, outOpen, born, oscOn, micLive, graphOn,
                   transport, mic, playVars, clock>>

\* The output context's resume() settles; connect() starts the keep-alive
\* oscillator and the output gain on the context outputContextRef names now,
\* and opens the transport (ai.live.connect, which may throw).
ResumeOutDone(c, ok, live) ==
    /\ conn[c].pc = "resumeOut"
    /\ IF ok /\ outputContextRef # Null
       THEN /\ oscOn' = oscOn \cup {c}
            /\ keepAliveOscRef' = c
            /\ outputNodeRef' = outputContextRef
            /\ IF live
               THEN /\ transport' = [transport EXCEPT ![c] =
                          [st |-> "opening", promise |-> "pending", closeOnResolve |-> FALSE]]
                    /\ sessionPromiseRef' = c
                    /\ conn' = [conn EXCEPT ![c].pc = "done"]
                    /\ UNCHANGED <<status, error, locksHeld, wakeLockRef>>
               ELSE /\ Catch(c, locksHeld, wakeLockRef)
                    /\ UNCHANGED <<transport, sessionPromiseRef>>
       ELSE /\ Catch(c, locksHeld, wakeLockRef)
            /\ UNCHANGED <<oscOn, keepAliveOscRef, outputNodeRef, transport, sessionPromiseRef>>
    /\ calls' = 0
    /\ UNCHANGED <<chat, apiKey, mounted, pageVars, capVars, fresh, isAiSpeaking, inputContextRef, outputContextRef,
                   streamRef, processorRef, sourceRef,
                   inOpen, outOpen, born, micLive, graphOn, mic, playVars, clock>>

\* -------------------------------------------------- transport callbacks
\* The session promise resolves: the sends that onaudioprocess left on it with
\* then() run, in the order they were left.
SentOnResolve(t) == sent[t] + queued[t]

\* onopen: the transport opened. setStatus(CONNECTED) and the callback suspends
\* at await getUserMedia; the session promise resolves in the same task, which
\* runs a close that disconnect() left on the pending promise.
OnOpen(t) ==
    /\ transport[t].st = "opening"
    /\ status' = CONNECTED
    /\ mic' = [mic EXCEPT ![t] = "pending"]
    /\ transport' = [transport EXCEPT
           ![t].st = IF transport[t].closeOnResolve THEN "closing" ELSE "open",
           ![t].promise = "resolved"]
    /\ sent' = [sent EXCEPT ![t] = SentOnResolve(t)]
    /\ queued' = [queued EXCEPT ![t] = 0]
    /\ calls' = 0
    /\ UNCHANGED <<chat, apiKey, mounted, pageVars, frame, graphCtx, fresh, isAiSpeaking, error,
                   refVars, platVars, conn, playVars, clock>>

\* The promise returned by ai.live.connect rejects and no callback is called.
\* connect() did not await the promise and attached no handler to it: nothing
\* in the hook runs, and the then() callbacks left on the promise never do.
OpenRejected(t) ==
    /\ transport[t].st = "opening"
    /\ transport' = [transport EXCEPT ![t].st = "failed", ![t].promise = "rejected"]
    /\ calls' = 0
    /\ UNCHANGED <<chat, apiKey, mounted, pageVars, capVars, fresh, stateVars, refVars, platVars,
                   conn, mic, playVars, clock>>

\* getUserMedia resolved inside onopen: the stream is stored, and the capture
\* graph is built unless the input context is gone.
MicGranted(t) ==
    /\ mic[t] = "pending"
    /\ mic' = [mic EXCEPT ![t] = "granted"]
    /\ streamRef' = t
    /\ micLive' = micLive \cup {t}
    /\ IF inputContextRef = Null
       THEN UNCHANGED <<sourceRef, processorRef, graphOn, graphCtx>>
       ELSE /\ sourceRef' = t
            /\ processorRef' = t
            /\ graphOn' = graphOn \cup {t}
            /\ graphCtx' = [graphCtx EXCEPT ![t] = inputContextRef]
    /\ calls' = 0
    /\ UNCHANGED <<chat, apiKey, mounted, pageVars, queued, sent, frame, fresh, stateVars, inputContextRef, outputContextRef, outputNodeRef,
                   keepAliveOscRef, sessionPromiseRef, wakeLockRef,
                   inOpen, outOpen, born, oscOn, locksHeld, conn, transport, playVars, clock>>

\* getUserMedia rejected inside onopen: setError(...) then disconnect().
MicDenied(t) ==
    /\ mic[t] = "pending"
    /\ mic' = [mic EXCEPT ![t] = "denied"]
    /\ disconnect(transport)
    /\ UNCHANGED <<mounted, conn>>

\* onclose: the transport closed (by the server, after close(), after an error).
\* The callback compares the status its connect() closure captured.
OnClose(t) ==
    /\ transport[t].st \in {"open", "closing", "errored"}
    /\ transport' = [transport EXCEPT ![t].st = "closed"]
    /\ status' = IF conn[t].closureStatus # DISCONNECTED THEN DISCONNECTED ELSE status
    /\ calls' = 0
    /\ UNCHANGED <<chat, apiKey, mounted, pageVars, capVars, fresh, isAiSpeaking, error, refVars, platVars, conn, mic, playVars, clock>>

\* onerror: setError('Connection error occurred.') then disconnect().
OnError(t) ==
    /\ transport[t].st \in {"opening", "open"}
    /\ disconnect([transport EXCEPT ![t].st = "errored"])
    /\ UNCHANGED <<mounted, conn, mic>>

\* Variant: the interruption ends the session as disconnect() does.
InterruptedReleases(t) ==
    /\ transport[t].st = "open"
    /\ disconnect(transport)
    /\ UNCHANGED <<mounted, conn, mic>>
\* onmessage with serverContent.interrupted.
Interrupted(t) ==
    /\ transport[t].st = "open"
    /\ frag' = StopAll
    /\ sourcesRef' = {}
    /\ nextStartTimeRef' = CursorAfterReset
    /\ isAiSpeaking' = FALSE
    /\ run' = <<>>
    /\ last' = NoLast
    /\ calls' = 0
    /\ fresh' = (\A f \in FragIds : frag[f].st # "decoding")
    /\ UNCHANGED <<chat, apiKey, mounted, pageVars, capVars, status, error, refVars, platVars, asyncVars, clock>>

\* The interruption with stop() throwing for the units in thrown.
InterruptedThrown(t, thrown) ==
    /\ transport[t].st = "open"
    /\ thrown # {} /\ thrown \subseteq sourcesRef
    /\ frag' = StopAllCatching(thrown)
    /\ sourcesRef' = {}
    /\ nextStartTimeRef' = CursorAfterReset
    /\ isAiSpeaking' = FALSE
    /\ run' = <<>>
    /\ last' = NoLast
    /\ calls' = 0
    /\ fresh' = (\A f \in FragIds : frag[f].st # "decoding")
    /\ UNCHANGED <<chat, apiKey, mounted, pageVars, capVars, status, error, refVars, platVars, asyncVars, clock>>

\* ------------------------------------------------------------ capture
\* The extremes of the 16-bit signed range.
Int16Min == -32768
Int16Max == 32767
\* Storing a number into an Int16Array keeps its low 16 bits.
ToInt16(v) == ((v - Int16Min) % (Int16Max - Int16Min + 1)) + Int16Min
\* The integer part of n / d.
Trunc(n, d) == IF n >= 0 THEN n \div d ELSE -((-n) \div d)
\* The capture windows' samples, from -2.0 to 2.0.
Samples == (-2 * Resolution)..(2 * Resolution)
\* Clamping of a sample to [-1, 1].
Clamp(x) == IF x > Resolution THEN Resolution
            ELSE IF x < -Resolution THEN -Resolution ELSE x
\* Variant: the sample is scaled without being clamped.
ConvertUnclamped(x) ==
    ToInt16(IF x < 0 THEN Trunc(x * (-Int16Min), Resolution)
            ELSE Trunc(x * Int16Max, Resolution))
\* convertFloat32ToInt16 on one sample: clamped, then scaled to the 16-bit
\* range, the negative side to Int16Min and the positive side to Int16Max.
convertFloat32ToInt16(x) ==
    ToInt16(IF Clamp(x) < 0 THEN Trunc(Clamp(x) * (-Int16Min), Resolution)
            ELSE Trunc(Clamp(x) * Int16Max, Resolution))

\* onaudioprocess of capture graph g with a window of sample x: the window is
\* converted, and the send is left on the session promise sessionPromiseRef
\* names now: it runs at once on a resolved promise, waits on a pending one,
\* and there is none to run without a promise.
AudioProcess(g, x) ==
    /\ g \in graphOn
    /\ graphCtx[g] \in inOpen
    /\ frame' = [in |-> x, out |-> convertFloat32ToInt16(x)]
    /\ IF sessionPromiseRef = Null
       THEN UNCHANGED <<queued, sent>>
       ELSE IF transport[sessionPromiseRef].promise = "resolved"
            THEN /\ sent' = [sent EXCEPT ![sessionPromiseRef] = @ + 1]
                 /\ UNCHANGED queued
            ELSE /\ queued' = [queued EXCEPT ![sessionPromiseRef] = @ + 1]
                 /\ UNCHANGED sent
    /\ calls' = 0
    /\ UNCHANGED <<chat, apiKey, mounted, pageVars, graphCtx, fresh, stateVars, refVars, platVars,
                   asyncVars, playVars, clock>>

\* --------------------------------------------------------- visibility
\* The page is hidden: the platform releases every screen wake lock; the
\* handler does nothing on a hidden page.
Hide ==
    /\ visible
    /\ visible' = FALSE
    /\ locksHeld' = {}
    /\ calls' = 0
    /\ UNCHANGED <<chat, apiKey, mounted, wakeReq, capVars, fresh, stateVars, refVars,
                   inOpen, outOpen, born, oscOn, micLive, graphOn,
                   asyncVars, playVars, clock>>

\* The page becomes visible: handleVisibilityChange calls requestWakeLock()
\* when status is Connected.
Show ==
    /\ ~visible
    /\ visible' = TRUE
    /\ wakeReq' = IF status = CONNECTED
                  THEN [pending |-> wakeReq.pending + 1, made |-> wakeReq.made + 1]
                  ELSE wakeReq
    /\ calls' = 0
    /\ UNCHANGED <<chat, apiKey, mounted, capVars, fresh, stateVars, refVars, platVars,
                   asyncVars, playVars, clock>>

\* The sentinel of the handler's k-th request.
LockOfRequest(k) == MaxConnects + k

\* The oldest pending request of the handler settles: granted on a visible
\* page (ok), the sentinel is stored in wakeLockRef; refused, or the page is
\* hidden, the rejection is caught inside requestWakeLock().
WakeRegrant(ok) ==
    /\ wakeReq.pending > 0
    /\ wakeReq' = [wakeReq EXCEPT !.pending = @ - 1]
    /\ IF ok /\ visible
       THEN /\ locksHeld' = locksHeld \cup {LockOfRequest(wakeReq.made - wakeReq.pending + 1)}
            /\ wakeLockRef' = LockOfRequest(wakeReq.made - wakeReq.pending + 1)
       ELSE UNCHANGED <<locksHeld, wakeLockRef>>
    /\ calls' = 0
    /\ UNCHANGED <<chat, apiKey, mounted, visible, capVars, fresh, stateVars,
                   inputContextRef, outputContextRef, outputNodeRef, keepAliveOscRef,
                   sessionPromiseRef, streamRef, processorRef, sourceRef,
                   inOpen, outOpen, born, oscOn, micLive, graphOn,
                   asyncVars, playVars, clock>>

\* Fragments are numbered in arrival order.
NextFrag == CHOOSE f \in FragIds : frag[f].st = "none" /\ \A g \in 1..(f - 1) : frag[g].st # "none"
CanArrive == \E f \in FragIds : frag[f].st = "none"

\* Variant: the cursor is set to the clock.
SnapToClock(cursor, now) == now
\* Variant: the cursor is left where it was.
SnapNever(cursor, now) == cursor
\* Math.max(nextStartTimeRef.current, ctx.currentTime)
SnapForward(cursor, now) == Max(cursor, now)

\* onmessage with neither serverContent.interrupted nor inline audio (a text
\* part, a turn-complete notice, a setup acknowledgement): both tests fail and
\* the handler returns.
OtherMessage(t) ==
    /\ transport[t].st = "open"
    /\ calls' = 0
    /\ UNCHANGED <<chat, apiKey, mounted, pageVars, capVars, fresh, stateVars, refVars, platVars,
                   asyncVars, playVars, clock>>

\* Variant: setIsAiSpeaking(true) comes before the test of the output refs.
FlagSetOnDrop(flag) == TRUE
\* A fragment that fails the test of the output refs: no statement runs.
FlagAfterDrop(flag) == flag

\* onmessage with inline audio of duration d, up to await decodeAudioData:
\* with an output context and gain node, setIsAiSpeaking(true) and the cursor
\* is raised to the clock; without them the message is dropped.
Fragment(t, d) ==
    /\ transport[t].st = "open"
    /\ CanArrive
    /\ IF outputContextRef # Null /\ outputNodeRef # Null
       THEN LET now == currentTime(outputContextRef)
                cur == SnapForward(nextStartTimeRef, now)
            IN  /\ isAiSpeaking' = TRUE
                /\ nextStartTimeRef' = cur
                /\ frag' = [f \in FragIds |->
                      IF f = NextFrag
                      THEN [NoFrag EXCEPT !.st = "decoding", !.ctx = outputContextRef,
                                !.dur = d, !.arrClock = now,
                                !.snapped = (now > nextStartTimeRef),
                                !.first = fresh]
                      ELSE Noted(frag[f], cur # nextStartTimeRef, FALSE)]
                /\ run' = IF now > nextStartTimeRef THEN <<>> ELSE run
       ELSE /\ frag' = [frag EXCEPT ![NextFrag] = Gone]
            /\ isAiSpeaking' = FlagAfterDrop(isAiSpeaking)
            /\ UNCHANGED <<nextStartTimeRef, run>>
    /\ last' = NoLast
    /\ fresh' = FALSE
    /\ calls' = 0
    /\ UNCHANGED <<chat, apiKey, mounted, pageVars, capVars, status, error, refVars, platVars, asyncVars, sourcesRef, clock>>

\* Variant: every source is started at once, source.start(0).
StartAtZero(cursor) == 0
\* source.start(when): the value handed to start().
StartAt(cursor) == cursor
\* Variant: the cursor is not advanced.
AdvanceNone(cursor, dur) == cursor
\* nextStartTimeRef.current += audioBuffer.duration
Advance(cursor, dur) == cursor + dur

\* decodeAudioData resolved for fragment f: the source is created on the
\* context captured at arrival and connected to the gain node outputNodeRef
\* names now (connect throws across contexts), started at the cursor, the
\* cursor advanced, the source added to sourcesRef. A source on a closed
\* context never sounds.
DecodeOk(f) ==
    /\ frag[f].st = "decoding"
    /\ IF outputNodeRef # frag[f].ctx
       THEN /\ frag' = [frag EXCEPT ![f] = Gone]
            /\ last' = NoLast
            /\ UNCHANGED <<sourcesRef, nextStartTimeRef, run>>
       ELSE LET c == frag[f].ctx
                when == StartAt(nextStartTimeRef)
                late == currentTime(c) > when
            IN  /\ frag' = [g \in FragIds |->
                      IF g = f
                      THEN [NoFrag EXCEPT
                                !.st = IF c \in outOpen THEN "live" ELSE "mute",
                                !.ctx = c,
                                !.dur = frag[f].dur,
                                !.start = when,
                                !.began = Max(when, currentTime(c))]
                      ELSE Noted(frag[g], TRUE, FALSE)]
                /\ nextStartTimeRef' = Advance(nextStartTimeRef, frag[f].dur)
                /\ sourcesRef' = sourcesRef \cup {f}
                /\ last' = [arrClock |-> frag[f].arrClock,
                             snapped |-> frag[f].snapped, moved |-> frag[f].moved,
                             reset |-> frag[f].reset, start |-> when,
                             dur |-> frag[f].dur, at |-> currentTime(c),
                             flag |-> isAiSpeaking, first |-> frag[f].first]
                /\ run' = IF late \/ c \notin outOpen THEN <<>>
                           ELSE Append(run, <<when, frag[f].dur>>)
    /\ calls' = 0
    /\ UNCHANGED <<chat, apiKey, mounted, pageVars, capVars, fresh, stateVars, refVars, platVars, asyncVars, clock>>

\* Variant: the failure is surfaced as the session's error.
ErrorSetOnDecodeFail(err) == "Failed to decode"
\* The rejection of decodeAudioData is caught nowhere: error is not written.
ErrorAfterDecodeFail(err) == err

\* decodeAudioData rejected for fragment f: the handler ends there.
DecodeFail(f) ==
    /\ frag[f].st = "decoding"
    /\ frag' = [frag EXCEPT ![f] = Gone]
    /\ last' = NoLast
    /\ error' = ErrorAfterDecodeFail(error)
    /\ calls' = 0
    /\ UNCHANGED <<chat, apiKey, mounted, pageVars, capVars, fresh, status, isAiSpeaking, refVars, platVars, asyncVars,
                   sourcesRef, nextStartTimeRef, run, clock>>

\* Variant: the flag is cleared whatever is left in the set.
FlagAlwaysCleared(rest, flag) == FALSE
\* if (sourcesRef.current.size === 0) { setIsAiSpeaking(false); }
FlagAfterEnded(rest, flag) == IF rest = {} THEN FALSE ELSE flag

\* source.onended of unit f, delivered after the unit finished or was stopped.
OnEnded(f) ==
    /\ frag[f].st = "stopped" \/ Finished(f)
    /\ frag' = [frag EXCEPT ![f] = IF frag[f].st = "stopped" THEN Cut ELSE Gone]
    /\ sourcesRef' = sourcesRef \ {f}
    /\ isAiSpeaking' = FlagAfterEnded(sourcesRef \ {f}, isAiSpeaking)
    /\ last' = NoLast
    /\ calls' = 0
    /\ UNCHANGED <<chat, apiKey, mounted, pageVars, capVars, fresh, status, error, refVars, platVars, asyncVars,
                   nextStartTimeRef, run, clock>>

\* The output device's clock advances while an output context is open.
Tick ==
    /\ outOpen # {}
    /\ clock < MaxClock
    /\ clock' = clock + 1
    /\ UNCHANGED <<chat, apiKey, mounted, pageVars, capVars, fresh, stateVars, refVars, platVars, asyncVars, playVars, calls>>

Arrived == Cardinality({f \in FragIds : frag[f].st # "none"})
Started == Cardinality({c \in ConnIds : conn[c].pc # "idle"})

\* The session: every outcome of every step of connect() and of the transport
\* and disconnect() at any point, with fragments received and scheduled on a
\* clock that stands still. The playback itself is SpecPlay's.
Next ==
    \/ Started < SessionConnects /\ Connect
    \/ \E c \in ConnIds, granted \in BOOLEAN, ctxs \in {"ok", "inThrows", "outThrows"} :
          WakeDone(c, granted, ctxs)
    \/ \E c \in ConnIds, ok \in BOOLEAN : ResumeInDone(c, ok)
    \/ \E c \in ConnIds, ok \in BOOLEAN, live \in BOOLEAN : ResumeOutDone(c, ok, live)
    \/ Disconnect
    \/ \E t \in ConnIds : OnOpen(t)
    \/ \E t \in ConnIds : MicGranted(t)
    \/ \E t \in ConnIds : MicDenied(t)
    \/ \E t \in ConnIds : OnClose(t)
    \/ \E t \in ConnIds : OnError(t)
    \/ \E t \in ConnIds : Arrived < SessionFrags /\ Fragment(t, 1)
    \/ \E f \in FragIds : DecodeOk(f)

Spec == Init /\ [][Next]_vars

\* The playback: one connect() whose steps all succeed, then every interleaving
\* of fragments, decodes, ended events, interruptions, manual stops, the clock
\* and disconnect().
NextPlay ==
    \/ conn[1].pc = "idle" /\ Connect
    \/ WakeDone(1, TRUE, "ok")
    \/ ResumeInDone(1, TRUE)
    \/ ResumeOutDone(1, TRUE, TRUE)
    \/ OnOpen(1)
    \/ Disconnect
    \/ StopSpeaking
    \/ Interrupted(1)
    \/ \E d \in Durations : Fragment(1, d)
    \/ \E f \in FragIds : DecodeOk(f)
    \/ \E f \in FragIds : DecodeFail(f)
    \/ \E f \in FragIds : OnEnded(f)
    \/ Tick

SpecPlay == Init /\ [][NextPlay]_vars

\* The playback with failing stops: one connect() whose steps all succeed,
\* fragments of one duration, their decodes and ended events, the clock, and
\* the three resets, with stop() returning and with stop() throwing for some
\* of the units.
NextFault ==
    \/ conn[1].pc = "idle" /\ Connect
    \/ WakeDone(1, TRUE, "ok")
    \/ ResumeInDone(1, TRUE)
    \/ ResumeOutDone(1, TRUE, TRUE)
    \/ OnOpen(1)
    \/ Disconnect
    \/ StopSpeaking
    \/ Interrupted(1)
    \/ Fragment(1, 1)
    \/ \E f \in FragIds : DecodeOk(f)
    \/ \E f \in FragIds : OnEnded(f)
    \/ Tick
    \/ \E thrown \in SUBSET FragIds : StopSpeakingThrown(thrown)
    \/ \E thrown \in SUBSET FragIds : InterruptedThrown(1, thrown)
    \/ \E thrown \in SUBSET FragIds : DisconnectThrown(thrown)

SpecFault == Init /\ [][NextFault]_vars

\* The session with failing release steps: Spec's steps, and disconnect() with
\* one of its operations failing.
NextRelease ==
    \/ Next
    \/ \E step \in ReleaseSteps : DisconnectFailing(step)

SpecRelease == Init /\ [][NextRelease]_vars

\* Capture windows reaching a session promise so far.
RECURSIVE SumOver(_, _)
SumOver(f, S) ==
    IF S = {} THEN 0
    ELSE LET c == CHOOSE c \in S : TRUE IN f[c] + SumOver(f, S \ {c})
Produced == SumOver(queued, ConnIds) + SumOver(sent, ConnIds)

\* The capture: connect() called again at any point, all steps succeeding,
\* the microphone granted, capture windows of silence, disconnect().
NextCapture ==
    \/ mounted /\ Connect
    \/ \E c \in ConnIds : WakeDone(c, TRUE, "ok")
    \/ \E c \in ConnIds : ResumeInDone(c, TRUE)
    \/ \E c \in ConnIds : ResumeOutDone(c, TRUE, TRUE)
    \/ \E t \in ConnIds : OnOpen(t)
    \/ \E t \in ConnIds : MicGranted(t)
    \/ \E t \in ConnIds : OnClose(t)
    \/ Disconnect
    \/ \E g \in ConnIds : Produced < MaxFrames /\ AudioProcess(g, 0)

SpecCapture == Init /\ [][NextCapture]_vars

\* The quantization: one session, and capture windows of every sample.
NextQuant ==
    \/ conn[1].pc = "idle" /\ Connect
    \/ WakeDone(1, TRUE, "ok")
    \/ ResumeInDone(1, TRUE)
    \/ ResumeOutDone(1, TRUE, TRUE)
    \/ OnOpen(1)
    \/ MicGranted(1)
    \/ \E x \in Samples : sent[1] < MaxFrames /\ AudioProcess(1, x)

SpecQuant == Init /\ [][NextQuant]_vars

\* The visibility: one session whose steps succeed, its wake lock granted only
\* on a visible page, the page hidden and shown, the handler's requests
\* settling late, disconnect().
NextWake ==
    \/ conn[1].pc = "idle" /\ Connect
    \/ WakeDone(1, visible, "ok")
    \/ ResumeInDone(1, TRUE)
    \/ ResumeOutDone(1, TRUE, TRUE)
    \/ OnOpen(1)
    \/ Disconnect
    \/ Hide
    \/ wakeReq.made < MaxRequests /\ Show
    \/ \E ok \in BOOLEAN : WakeRegrant(ok)

SpecWake == Init /\ [][NextWake]_vars

\* A conversation turn: one session with its microphone granted, capture
\* windows, fragments, interruptions and stopSpeaking(); no disconnect().
NextTurn ==
    \/ conn[1].pc = "idle" /\ Connect
    \/ WakeDone(1, TRUE, "ok")
    \/ ResumeInDone(1, TRUE)
    \/ ResumeOutDone(1, TRUE, TRUE)
    \/ OnOpen(1)
    \/ MicGranted(1)
    \/ Produced < MaxFrames /\ AudioProcess(1, 0)
    \/ Fragment(1, 1)
    \/ \E f \in FragIds : DecodeOk(f)
    \/ \E f \in FragIds : OnEnded(f)
    \/ StopSpeaking
    \/ Interrupted(1)
    \/ Tick

SpecTurn == Init /\ [][NextTurn]_vars

\* Messages outside a session's output: connect() called twice with every step
\* succeeding, disconnect() at any point, fragments (up to their decode) and
\* other messages on any open transport.
NextDrop ==
    \/ mounted /\ Connect
    \/ \E c \in ConnIds : WakeDone(c, TRUE, "ok")
    \/ \E c \in ConnIds : ResumeInDone(c, TRUE)
    \/ \E c \in ConnIds : ResumeOutDone(c, TRUE, TRUE)
    \/ \E t \in ConnIds : OnOpen(t)
    \/ Disconnect
    \/ \E t \in ConnIds : Arrived < SessionFrags /\ Fragment(t, 1)
    \/ \E t \in ConnIds : OtherMessage(t)

SpecDrop == Init /\ [][NextDrop]_vars

\* ---------------------------------------------------- text-chat playback
\* try { currentChatSourceRef.current.stop(); } catch (e) {}
SourcesAfterStop(ch) ==
    IF ch.current = Null THEN ch.src
    ELSE [ch.src EXCEPT ![ch.current] = IF @ = "playing" THEN "stopped" ELSE @]

\* The body of stopChatAudio().
StopChat(ch) ==
    [ch EXCEPT !.src = SourcesAfterStop(ch), !.current = Null, !.playing = Null]

\* stopChatAudio() called by the user.
StopChatAudio ==
    /\ chat' = StopChat(chat)
    /\ UNCHANGED hookVars

\* playBotAudio() invocations are numbered in call order.
NextChatCall ==
    CHOOSE k \in ChatIds :
        chat.call[k].pc = "idle" /\ \A b \in 1..(k - 1) : chat.call[b].pc # "idle"

\* playBotAudio(base64, index) up to its suspension at await decodeAudioData:
\* stopChatAudio(), and the chat context is created if there is none.
PlayBotAudio(index) ==
    /\ \E k \in ChatIds : chat.call[k].pc = "idle"
    /\ chat' = [StopChat(chat) EXCEPT
                   !.ctx = TRUE,
                   !.call[NextChatCall] = [pc |-> "decoding", index |-> index]]
    /\ UNCHANGED hookVars

\* decodeAudioData resolved for invocation k: its source is created, stored in
\* currentChatSourceRef, started, and setPlayingMsgIndex(index).
ChatDecodeOk(k) ==
    /\ chat.call[k].pc = "decoding"
    /\ chat' = [chat EXCEPT !.call[k].pc = "done",
                            !.src[k] = "playing",
                            !.current = k,
                            !.playing = chat.call[k].index]
    /\ UNCHANGED hookVars

\* decodeAudioData rejected for invocation k: the catch logs and returns.
ChatDecodeFail(k) ==
    /\ chat.call[k].pc = "decoding"
    /\ chat' = [chat EXCEPT !.call[k].pc = "failed"]
    /\ UNCHANGED hookVars

\* source.onended of invocation k's source, after it played to its end or was
\* stopped: setPlayingMsgIndex(current => current === index ? null : current).
ChatEnded(k) ==
    /\ chat.src[k] \in {"playing", "stopped"}
    /\ chat' = [chat EXCEPT
                   !.src[k] = "ended",
                   !.playing = IF @ = chat.call[k].index THEN Null ELSE @]
    /\ UNCHANGED hookVars

\* ------------------------------------------------------- ControlPanel
\* Variant: the button is never disabled.
ButtonNeverDisabled(st) == FALSE
\* disabled={isConnecting}
ButtonDisabled(st) == st = CONNECTING

\* A click on the ControlPanel button, rendered with the present status:
\* onClick={isConnected ? onDisconnect : onConnect}. A disabled button
\* delivers no click.
Click ==
    /\ ~ButtonDisabled(status)
    /\ IF status = CONNECTED THEN Disconnect ELSE Connect

\* The platform's part of a connection: every await of connect() settles, and
\* the transport opens, fails to open, reports an error or closes.
Settle ==
    \/ \E c \in ConnIds, granted \in BOOLEAN, ctxs \in {"ok", "inThrows", "outThrows"} :
          WakeDone(c, granted, ctxs)
    \/ \E c \in ConnIds, ok \in BOOLEAN : ResumeInDone(c, ok)
    \/ \E c \in ConnIds, ok \in BOOLEAN, live \in BOOLEAN : ResumeOutDone(c, ok, live)
    \/ \E t \in ConnIds : OnOpen(t)
    \/ \E t \in ConnIds : OpenRejected(t)
    \/ \E t \in ConnIds : OnError(t)
    \/ \E t \in ConnIds : OnClose(t)
    \/ \E t \in ConnIds : MicGranted(t)
    \/ \E t \in ConnIds : MicDenied(t)

\* The opening of a connection: connect() called at any point and no other
\* call of the user; the platform's steps are taken as long as one is due.
NextOpen ==
    \/ mounted /\ Connect
    \/ Settle

SpecOpen == Init /\ [][NextOpen]_vars /\ WF_vars(Settle)

\* The application in LIVE mode: the ControlPanel button is the only caller of
\* connect(); the LIVE tab calls disconnect(); a connection attempt fails at
\* the input context or goes through, and its transport opens or reports an
\* error.
NextClick ==
    \/ Click
    \/ Disconnect
    \/ \E c \in ConnIds, ctxs \in {"ok", "inThrows"} : WakeDone(c, TRUE, ctxs)
    \/ \E c \in ConnIds : ResumeInDone(c, TRUE)
    \/ \E c \in ConnIds : ResumeOutDone(c, TRUE, TRUE)
    \/ \E t \in ConnIds : OnOpen(t)
    \/ \E t \in ConnIds : OnError(t)

SpecClick == Init /\ [][NextClick]_vars

\* Text-chat playback: playBotAudio() for any message and stopChatAudio() at
\* any point, every outcome of the decodes, the ended events.
NextChat ==
    \/ \E index \in ChatIds : PlayBotAudio(index)
    \/ StopChatAudio
    \/ \E k \in ChatIds : ChatDecodeOk(k)
    \/ \E k \in ChatIds : ChatDecodeFail(k)
    \/ \E k \in ChatIds : ChatEnded(k)

SpecChat == Init /\ [][NextChat]_vars

\* The life of the component: connect() called again at any point, in any
\* status, every outcome of its steps and of the transport callbacks,
\* disconnect() at any point and the unmount; no fragments.
NextLife ==
    \/ mounted /\ Connect
    \/ \E c \in ConnIds, granted \in BOOLEAN, ctxs \in {"ok", "inThrows", "outThrows"} :
          WakeDone(c, granted, ctxs)
    \/ \E c \in ConnIds, ok \in BOOLEAN : ResumeInDone(c, ok)
    \/ \E c \in ConnIds, ok \in BOOLEAN, live \in BOOLEAN : ResumeOutDone(c, ok, live)
    \/ mounted /\ Disconnect
    \/ Teardown
    \/ \E t \in ConnIds : OnOpen(t)
    \/ \E t \in ConnIds : MicGranted(t)
    \/ \E t \in ConnIds : MicDenied(t)
    \/ \E t \in ConnIds : OnClose(t)
    \/ \E t \in ConnIds : OnError(t)

SpecLife == Init /\ [][NextLife]_vars

\* ================================================================ claims
\* A unit that sounds now or will sound: started on an open context, not
\* stopped, its buffer not played to the end.
Sounding(f) == frag[f].st = "live" /\ ~Finished(f)
\* The interval of the output clock in which unit f sounds.
From(f) == born[frag[f].ctx] + frag[f].began
Till(f) == From(f) + frag[f].dur
ResourceRefsEmpty ==
    /\ inputContextRef = Null /\ outputContextRef = Null
    /\ streamRef = Null /\ processorRef = Null /\ sourceRef = Null
    /\ keepAliveOscRef = Null /\ sessionPromiseRef = Null /\ wakeLockRef = Null

\* C1: in every reachable state isAiSpeaking is true iff the live set
\* (sourcesRef) is non-empty.
C1_SpeakingIffLive == isAiSpeaking <=> (sourcesRef # {})

\* C2: right after a server interruption or stopSpeaking() the live set is
\* empty, isAiSpeaking is false, nextStartTime is 0, and no unit is left
\* sounding or scheduled to sound.
C2_InterruptionStopsAll ==
    [][(StopSpeaking \/ \E t \in ConnIds : Interrupted(t)) =>
          /\ sourcesRef' = {}
          /\ ~isAiSpeaking'
          /\ nextStartTimeRef' = 0
          /\ \A f \in FragIds :
                frag'[f].st = "live" =>
                    clock' - born'[frag'[f].ctx] >= frag'[f].began + frag'[f].dur]_vars
\* Both units were cut by a stop while the session stayed connected.
C2_Witness ==
    /\ status = CONNECTED
    /\ outputContextRef # Null
    /\ \A f \in FragIds : frag[f].st = "stopped"
    /\ sourcesRef = {} /\ nextStartTimeRef = 0 /\ ~isAiSpeaking

\* C3: a decode that completes after an interruption, stopSpeaking() or
\* disconnect() is discarded, or its unit is started at the output clock of
\* that moment with the speaking flag set.
C3_LateDecodeAccountedFor ==
    last.reset => (last.start = last.at /\ last.flag)

RECURSIVE RunSum(_)
RunSum(k) == IF k = 0 THEN 0 ELSE RunSum(k - 1) + run[k][2]
C5_BackToBack ==
    /\ \A k \in 1..Len(run) : run[k][1] = run[1][1] + RunSum(k - 1)
    /\ Len(run) > 0 => nextStartTimeRef = run[1][1] + RunSum(Len(run))
\* Two units were scheduled back to back, the second not at the first's start.
C5_Witness ==
    /\ Len(run) >= 2
    /\ run[2][1] = run[1][1] + run[1][2]
    /\ nextStartTimeRef = run[1][1] + run[1][2] + run[2][2]

\* C6: no two playback units sound at the same time.
C6_NoOverlap ==
    \A f, g \in FragIds :
        (f # g /\ Sounding(f) /\ Sounding(g)) =>
            (Till(f) <= From(g) \/ Till(g) <= From(f))

\* C7 as stated: nextStartTime is never behind the output clock nor behind the
\* end of a scheduled unit.
C7_CursorNeverBehind ==
    /\ outputContextRef # Null => nextStartTimeRef >= currentTime(outputContextRef)
    /\ \A f \in sourcesRef : nextStartTimeRef >= frag[f].start + frag[f].dur
\* C7 as amended: nextStartTime is never behind the scheduled end of a unit in
\* the live set, and a fragment's arrival leaves it at or after the output
\* clock; between arrivals the clock may pass it.
C7_CursorCoversLiveSet ==
    /\ [](\A f \in sourcesRef : nextStartTimeRef >= frag[f].start + frag[f].dur)
    /\ [][\A t \in ConnIds, d \in Durations :
             (Fragment(t, d) /\ outputContextRef # Null /\ outputNodeRef # Null) =>
                 nextStartTimeRef' >= currentTime(outputContextRef)]_vars
\* A unit is in the live set and the clock has passed the cursor.
C7_Witness ==
    /\ sourcesRef # {}
    /\ outputContextRef # Null
    /\ nextStartTimeRef < currentTime(outputContextRef)
    /\ \E f \in sourcesRef : frag[f].dur > 0 /\ nextStartTimeRef >= frag[f].start + frag[f].dur

\* C8 as stated, in runs without a reset: a fragment that arrived after the
\* clock had passed the cursor is started at the clock value of its arrival.
C8_LateFragmentStartsAtArrivalClock ==
    (last.snapped /\ ~last.reset) => last.start = last.arrClock
\* C8 as amended: such an arrival sets nextStartTime to the clock; the unit is
\* started at the value nextStartTime has when its decode completes, which is
\* the arrival's clock value if nothing wrote the cursor in between, and
\* nextStartTime is then that start plus the duration.
C8_LateFragmentSnapsCursor ==
    [][/\ \A t \in ConnIds, d \in Durations :
            (/\ Fragment(t, d)
             /\ outputContextRef # Null /\ outputNodeRef # Null
             /\ currentTime(outputContextRef) > nextStartTimeRef) =>
                nextStartTimeRef' = currentTime(outputContextRef)
       /\ \A f \in FragIds :
            (DecodeOk(f) /\ outputNodeRef = frag[f].ctx) =>
                /\ last'.start = nextStartTimeRef
                /\ nextStartTimeRef' = last'.start + frag[f].dur
                /\ (frag[f].snapped /\ ~frag[f].moved) => last'.start = frag[f].arrClock]_vars
\* A late fragment was started at its arrival's clock value, past zero.
C8_Witness ==
    /\ last.snapped /\ ~last.moved
    /\ last.arrClock > 0
    /\ last.start = last.arrClock
    /\ nextStartTimeRef = last.start + last.dur

\* C9: every failure of the connect sequence ends with every acquired
\* resource released.
C9_FailureReleasesAll ==
    status = ERROR =>
        /\ inOpen = {} /\ outOpen = {} /\ oscOn = {}
        /\ locksHeld = {} /\ micLive = {} /\ graphOn = {}
        /\ inputContextRef = Null /\ outputContextRef = Null /\ keepAliveOscRef = Null

\* C10: after a surfaced error (transport error, microphone denied, exception
\* in connect()) the error message is non-null.
C10_SurfacedErrorKept ==
    [][(\E t \in ConnIds : (OnError(t) \/ MicDenied(t))) => error' # NoError]_vars

\* C11: when the transport of a session that connect() started from status
\* Disconnected reports a close while status is Connected, status becomes
\* Disconnected and error stays null.
C11_RemoteCloseDisconnects ==
    [][\A t \in ConnIds :
          (/\ OnClose(t)
           /\ transport[t].st = "open" /\ sessionPromiseRef = t
           /\ status = CONNECTED /\ conn[t].closureStatus = DISCONNECTED) =>
              (status' = DISCONNECTED /\ error' = NoError)]_vars

\* C12: after disconnect(), a transport-reported close or error, and the
\* teardown, the full release has run: the contexts, the oscillator, the capture
\* graph, the microphone stream and the wake lock that the refs named are
\* released, the live set is empty and the cursor is 0. (The release after the
\* error transition of connect() is C9.)
C12_TriggersRelease ==
    [][(Disconnect \/ Teardown
          \/ \E t \in ConnIds : (OnClose(t) \/ OnError(t) \/ MicDenied(t))) =>
          /\ inputContextRef \notin inOpen'
          /\ outputContextRef \notin outOpen'
          /\ keepAliveOscRef \notin oscOn'
          /\ processorRef \notin graphOn'
          /\ streamRef \notin micLive'
          /\ wakeLockRef \notin locksHeld'
          /\ sourcesRef' = {}
          /\ nextStartTimeRef' = 0]_vars

\* C13: at most one session's resources are live at any time: one input and
\* one output context, one keep-alive oscillator, one microphone stream, one
\* wake lock, one transport.
C13_OneResourceSetLive ==
    /\ Cardinality(inOpen) <= 1
    /\ Cardinality(outOpen) <= 1
    /\ Cardinality(oscOn) <= 1
    /\ Cardinality(micLive) <= 1
    /\ Cardinality(locksHeld) <= 1
    /\ Cardinality({t \in ConnIds : transport[t].st \in {"opening", "open"}}) <= 1

\* C14: connect() without a credential sets the error and acquires nothing:
\* no invocation is started, no wake lock, context or transport is created, and
\* the live set, the cursor and every ref are unchanged.
C14_NoKeyAcquiresNothing ==
    [][(Connect /\ ~apiKey) =>
          /\ error' = ErrMissingKey
          /\ UNCHANGED <<refVars, platVars, asyncVars, playVars, isAiSpeaking>>]_vars
\* connect() was called without a credential and nothing exists.
C14_Witness ==
    /\ ~apiKey
    /\ error = ErrMissingKey
    /\ ResourceRefsEmpty
    /\ \A c \in ConnIds : conn[c].pc = "idle" /\ transport[c].st = "none"
    /\ inOpen = {} /\ outOpen = {} /\ locksHeld = {}

\* C15: connect() without a credential makes status Error.
C15_NoKeyStatusError ==
    [][(Connect /\ ~apiKey) => status' = ERROR]_vars

C17_StatusFollowsMachine ==
    [][status' # status =>
          /\ status' = CONNECTING => status = DISCONNECTED
          /\ status' = CONNECTED => status = CONNECTING
          /\ status' = ERROR => status = CONNECTING]_vars

\* C18: units are scheduled in arrival order: of two units in the live set the
\* one whose fragment arrived first does not start later.
C18_ArrivalOrder ==
    \A f, g \in sourcesRef : f < g => frag[f].start <= frag[g].start

\* C19: the ended event of a unit removes that unit only and clears
\* isAiSpeaking only if the live set is then empty; the ended event of a unit
\* force-stopped earlier, delivered while newer units are in the live set,
\* changes neither the set nor the flag.
C19_EndedRemovesOnlyItself ==
    [][\A f \in FragIds : OnEnded(f) =>
          /\ sourcesRef' = sourcesRef \ {f}
          /\ isAiSpeaking' = IF sourcesRef' = {} THEN FALSE ELSE isAiSpeaking
          /\ (frag[f].st = "stopped" /\ sourcesRef # {}) =>
                (sourcesRef' = sourcesRef /\ isAiSpeaking' = isAiSpeaking)]_vars
\* The ended event of the stopped first unit came after the second unit was
\* scheduled: the second is still in the set and the flag is still set.
C19_Witness ==
    /\ frag[1].st = "cut"
    /\ frag[2].st = "live"
    /\ sourcesRef = {2}
    /\ isAiSpeaking

\* C20: a reset (interruption, stopSpeaking(), disconnect()) leaves a unit that
\* already finished as it is, and when stop() throws for some units the others
\* are still stopped and the reset still ends with an empty live set, the
\* cursor 0 and the flag cleared.
C20_StopFailureSwallowed ==
    [][/\ (StopSpeaking \/ Disconnect \/ \E t \in ConnIds : Interrupted(t)) =>
            \A f \in sourcesRef : Finished(f) => frag'[f] = frag[f]
       /\ \A thrown \in SUBSET FragIds :
            (\/ StopSpeakingThrown(thrown)
             \/ DisconnectThrown(thrown)
             \/ \E t \in ConnIds : InterruptedThrown(t, thrown)) =>
                /\ sourcesRef' = {}
                /\ nextStartTimeRef' = 0
                /\ ~isAiSpeaking'
                /\ \A f \in sourcesRef \ thrown :
                      frag'[f].st = "live" =>
                          clock' - born'[frag'[f].ctx] >= frag'[f].began + frag'[f].dur]_vars
\* A reset in which stop() threw for one unit and stopped another: the first
\* still sounds, outside the emptied live set.
C20_Witness ==
    /\ sourcesRef = {}
    /\ nextStartTimeRef = 0
    /\ ~isAiSpeaking
    /\ \E f, g \in FragIds : Sounding(f) /\ frag[g].st = "stopped"

\* C21: when one step of disconnect() fails, every other step is still carried
\* out and disconnect() ends with status Disconnected and an empty live set.
C21_ReleaseStepsGuarded ==
    [][\A step \in ReleaseSteps : DisconnectFailing(step) =>
          /\ status' = DISCONNECTED
          /\ sourcesRef' = {}
          /\ step # "lock" => wakeLockRef \notin locksHeld'
          /\ step # "inClose" => inputContextRef \notin inOpen'
          /\ step # "outClose" => outputContextRef \notin outOpen'
          /\ step # "osc" => keepAliveOscRef \notin oscOn'
          /\ step # "tracks" => streamRef \notin micLive'
          /\ step # "graph" => processorRef \notin graphOn'
          /\ (step # "transport" /\ sessionPromiseRef # Null) =>
                transport'[sessionPromiseRef].st # "open"]_vars

\* C22: a failed decode drops that fragment only: the live set, the status,
\* the error, every ref and resource, the transport and the other fragments
\* are unchanged, so later fragments are scheduled as before.
C22_DecodeFailureDropsOne ==
    [][\A f \in FragIds : DecodeFail(f) =>
          /\ frag'[f] = Gone
          /\ \A g \in FragIds \ {f} : frag'[g] = frag[g]
          /\ UNCHANGED <<sourcesRef, nextStartTimeRef, status, error, refVars,
                         platVars, asyncVars>>]_vars
\* The first fragment's decode failed in a session that was never reset, and
\* the second fragment was scheduled after it and sounds.
C22_Witness ==
    /\ status = CONNECTED
    /\ error = NoError
    /\ outputContextRef # Null
    /\ clock = 0
    /\ frag[1] = Gone
    /\ frag[2].st = "live"
    /\ sourcesRef = {2}

\* C24: nextStartTime is lowered only to 0 and only by an interruption,
\* stopSpeaking() or disconnect(); the arrival of a fragment, the end of its
\* decode and the ended event of a unit never lower it.
C24_CursorOnlyResetsDown ==
    [][/\ nextStartTimeRef' < nextStartTimeRef =>
            /\ nextStartTimeRef' = 0
            /\ StopSpeaking \/ Disconnect \/ \E t \in ConnIds : Interrupted(t)
       /\ (\/ \E t \in ConnIds, d \in Durations : Fragment(t, d)
           \/ \E f \in FragIds : DecodeOk(f) \/ DecodeFail(f) \/ OnEnded(f)) =>
                nextStartTimeRef' >= nextStartTimeRef]_vars
\* After a reset that cut a unit a later fragment raised the cursor again.
C24_Witness ==
    /\ nextStartTimeRef > 0
    /\ \E f \in FragIds : frag[f].st \in {"stopped", "cut"}
    /\ \E g \in FragIds : frag[g].st = "live"

\* C25: the first fragment to arrive after an interruption that found no
\* decode pending is started at the output clock value of its arrival.
C25_FirstAfterInterruptionAtClock ==
    (last.first /\ ~last.reset) => last.start = last.arrClock

\* C26: a wake-lock request that fails does not end connect(): status and
\* error are unchanged by it, both audio contexts are created and connect()
\* goes on to resume them.
C26_WakeLockNotFatal ==
    [][\A c \in ConnIds : WakeDone(c, FALSE, "ok") =>
          /\ status' = status
          /\ error' = error
          /\ inputContextRef' = c /\ c \in inOpen'
          /\ outputContextRef' = c /\ c \in outOpen'
          /\ conn'[c].pc = "resumeIn"]_vars
\* A session opened its transport without a wake lock.
C26_Witness ==
    /\ status = CONNECTED
    /\ error = NoError
    /\ transport[1].st = "open"
    /\ wakeLockRef = Null
    /\ locksHeld = {}

\* C27: when nothing is left that plays or will play (no decode pending, no
\* unit in the live set, no ended event to come), isAiSpeaking is false.
C27_FlagClearedWhenIdle ==
    (/\ sourcesRef = {}
     /\ \A f \in FragIds : frag[f].st \in {"none", "gone", "cut"}) => ~isAiSpeaking

\* C23: a capture window produced while the session promise is pending is
\* dropped: it is not kept on the promise and the resolution of the promise
\* hands nothing to the session.
C23_PendingFrameDropped ==
    [][\A t \in ConnIds : OnOpen(t) => sent'[t] = sent[t]]_vars

\* C28: the page becoming visible requests a wake lock exactly when status is
\* Connected, and every wake lock held is the one wakeLockRef names.
C28_VisibilityRerequest ==
    /\ [][Show => (wakeReq'.made > wakeReq.made <=> status = CONNECTED)]_vars
    /\ [](locksHeld \subseteq {wakeLockRef})

\* C29: the converted sample lies in the 16-bit signed range, the samples 1.0
\* and -1.0 give its extremes, and so does every sample outside [-1, 1].
C29_QuantizationClamps ==
    /\ frame.out \in Int16Min..Int16Max
    /\ frame.in >= Resolution => frame.out = Int16Max
    /\ frame.in <= -Resolution => frame.out = Int16Min
\* A sample above 1.0 was converted to the upper extreme.
C29_Witness ==
    /\ frame.in > Resolution
    /\ frame.out = Int16Max
    /\ sent[1] > 0

\* C30: from the return of disconnect() to the next connect() status stays
\* Disconnected and nothing is acquired: no context, oscillator, microphone
\* stream, capture graph or wake lock appears and no transport is opened.
C30_NothingAfterDisconnect ==
    [][(status = DISCONNECTED /\ Started > 0 /\ ~Connect) =>
          /\ status' = DISCONNECTED
          /\ inOpen' \subseteq inOpen
          /\ outOpen' \subseteq outOpen
          /\ oscOn' \subseteq oscOn
          /\ micLive' \subseteq micLive
          /\ graphOn' \subseteq graphOn
          /\ locksHeld' \subseteq locksHeld
          /\ \A t \in ConnIds : transport[t].st = "none" => transport'[t].st = "none"]_vars

\* C31: status does not stay Connecting: whenever it is Connecting it later is
\* Connected, Error or Disconnected, the platform's steps being taken.
C31_LeavesConnecting ==
    (status = CONNECTING) ~> (status # CONNECTING)

\* C32: an interruption and stopSpeaking() leave status, error, every ref of
\* the session, the contexts, microphone, capture graph, oscillator, wake lock
\* and transport as they were; capture windows are handled as before.
C32_ResetTouchesPlaybackOnly ==
    [][(StopSpeaking \/ \E t \in ConnIds : Interrupted(t)) =>
          /\ UNCHANGED <<status, error, refVars, platVars, asyncVars, capVars, pageVars>>
          /\ sourcesRef' = {} /\ nextStartTimeRef' = 0 /\ ~isAiSpeaking']_vars
\* A unit was force-stopped and the session is whole: Connected, transport
\* open, microphone and capture graph running, a window sent.
C32_Witness ==
    /\ \E f \in FragIds : frag[f].st = "stopped"
    /\ sourcesRef = {}
    /\ status = CONNECTED
    /\ transport[1].st = "open"
    /\ outputContextRef = 1 /\ inputContextRef = 1
    /\ 1 \in inOpen /\ 1 \in outOpen /\ 1 \in oscOn
    /\ 1 \in micLive /\ 1 \in graphOn /\ 1 \in locksHeld
    /\ sent[1] > 0

\* C33: a fragment handled without an output context or without an output
\* gain node creates no unit and leaves the live set, the cursor and the flag
\* as they were; a message with neither an interruption flag nor inline audio
\* changes nothing of the hook.
C33_FragmentWithoutOutputIgnored ==
    [][/\ \A t \in ConnIds, d \in Durations :
             (Fragment(t, d) /\ (outputContextRef = Null \/ outputNodeRef = Null)) =>
                /\ UNCHANGED <<sourcesRef, nextStartTimeRef, isAiSpeaking>>
                /\ UNCHANGED <<status, error, refVars, platVars, asyncVars>>
                /\ \A f \in FragIds : frag'[f].st \in {"decoding", "live", "mute"} =>
                                           frag'[f] = frag[f]
       /\ \A t \in ConnIds : OtherMessage(t) =>
             UNCHANGED <<stateVars, refVars, platVars, asyncVars, sourcesRef,
                         nextStartTimeRef, frag, capVars, pageVars>>]_vars
\* A fragment was dropped after disconnect(): it is gone with nothing live,
\* the output context absent and its transport still open.
C33_Witness ==
    /\ outputContextRef = Null
    /\ outputNodeRef # Null
    /\ frag[1] = Gone
    /\ sourcesRef = {}
    /\ nextStartTimeRef = 0
    /\ ~isAiSpeaking
    /\ \E t \in ConnIds : transport[t].st = "open"

\* C34: no capture frame is handed to a session once disconnect() has
\* returned: whatever runs next after a disconnect() call, a capture window or
\* the resolution of a session promise, sends nothing.
C34_NoSendAfterDisconnect ==
    [][calls > 0 => sent' = sent]_vars

\* connect() was invoked in this step: an invocation left its start, or the
\* missing credential was reported.
ConnectCalled ==
    \/ \E c \in ConnIds : conn[c].pc = "idle" /\ conn'[c].pc # "idle"
    \/ error # ErrMissingKey /\ error' = ErrMissingKey

\* C35: through the button connect() is invoked only in status Disconnected or
\* Error; in status Connected a click calls disconnect() and not connect();
\* in status Connecting no click is delivered.
C35_ButtonGuardsConnect ==
    /\ [][ConnectCalled => status \in {DISCONNECTED, ERROR}]_vars
    /\ [][(Click /\ status = CONNECTED) =>
             (status' = DISCONNECTED /\ calls' > 0 /\ conn' = conn)]_vars
    /\ [](status = CONNECTING => ~ENABLED Click)
\* connect() was invoked by a click in status Disconnected and, after that
\* attempt failed, by a click in status Error.
C35_Witness ==
    /\ conn[1].closureStatus = DISCONNECTED
    /\ conn[1].pc = "failed"
    /\ conn[2].closureStatus = ERROR
    /\ conn[2].pc = "wake"
    /\ status = CONNECTING

\* C36: in text-chat playback every source that is playing is the one
\* currentChatSourceRef names, and playingMsgIndex is null or the index of the
\* source that is playing.
C36_OneChatSource ==
    /\ \A k \in ChatIds : chat.src[k] = "playing" => chat.current = k
    /\ chat.playing # Null =>
          /\ chat.current # Null
          /\ chat.src[chat.current] = "playing"
          /\ chat.call[chat.current].index = chat.playing

====
